---- MODULE Spec2Model ----
(***************************************************************************)
(* Model of the BLE stepper-motor session layer                            *)
(* (src/step-motor-control/v3/ble_common.py), of the GUI that drives it    *)
(* (ble_gui.py), of the TCP test server                                    *)
(* (src/test/wifi_communication_test/pc_tcp_server.py) and of the serial   *)
(* log recorder (src/oldversion/stepper_simple_angle/log_recorder.py).     *)
(*                                                                         *)
(* Text is a sequence of Unicode code points, a notification payload is a  *)
(* sequence of byte values.  The specifications share the variables:       *)
(*   FramerSpec   notifications fed to _notification_handler               *)
(*   ProtoSpec    MotorCommands constructors and _validate_command         *)
(*   Spec         connect / disconnect / send_command, interleaved at the  *)
(*                await points of the coroutines                           *)
(*   LiveSpec     Spec with a fair event loop                              *)
(*   GuiSpec      one session driven from the GUI thread through the       *)
(*                event loop                                               *)
(*   ServerSpec   the threads of ArduinoTCPServer                          *)
(*   RecorderSpec one run of log_recorder.main                             *)
(***************************************************************************)
EXTENDS Integers, Sequences, FiniteSets, TLC

VARIABLES
    \* ---- BLEStepperClient fields (__init__) ----
    client,          \* self.client: NoClient or the id of a BleakClient object
    device,          \* self.device: "None" or the name of the selected device
    is_connected,    \* self.is_connected
    message_buffer,  \* self.message_buffer (text)
    \* ---- environment: callback and notification history ----
    delivered,       \* messages passed to on_status_received, in call order
    deliveredAt,     \* for each of them, which newline of the stream ended it
    stream,          \* every byte received so far, in arrival order
    hist,            \* the last two notifications (chunk, pre-state, outcome)
    cbRaised,        \* some on_status_received call has raised
    \* ---- command protocol: the last constructor call and its validation ----
    cmd,             \* [origin, arg, raised, text] of the last command built
    validateResult,  \* outcome of _validate_command on cmd.text, or "none"
    \* ---- transports (BleakClient objects) ----
    link,            \* link[k]: "unused", "created", "open" or "closed"
    subscribed,      \* clients on which start_notify has succeeded
    nextClient,      \* id the next BleakClient(...) gets
    wire,            \* calls of write_gatt_char, in call order
    \* ---- coroutine frames ----
    connCo,          \* connect(): [pc, k, result]
    lastScan,        \* devices returned by the scan of find_target_device
    discCo,          \* disconnect(): [pc, k, result, outcome]
    sendCo,          \* send_command(): per invocation [pc, text, k, result]
    \* ---- StepperMotorGUI: GUI thread and the event loop of its session ----
    ready,           \* coroutines handed to the loop and not yet started
    guiCo,           \* StepperMotorGUI.send_command(): [pc, text, result]
    keepAliveEnded,  \* the loop of _connect_async has seen is_connected false
    \* ---- ArduinoTCPServer (pc_tcp_server.py) ----
    running,         \* self.running
    server_socket,   \* self.server_socket: "None", "listening" or "closed"
    clients,         \* self.clients: the registered peers, in list order
    client_lock,     \* self.client_lock: "free" or the thread that holds it
    sock,            \* sock[p]: socket of peer p, "unused", "open", "broken", "closed"
    acceptCo,        \* accept_connections thread: [pc, p]
    handlerCo,       \* handlerCo[p]: position of the handle_client thread of peer p
    commandCo,       \* command_loop thread: [pc, idx, tried, count]
    stopCo,          \* stop(): [pc, idx, calls]
    failed,          \* peers to which a sendall of send_to_all has raised
    lastIo,          \* the last socket send or close: [op, p, by, held]
    \* ---- log_recorder.main ----
    header_written,  \* header_written
    log_file,        \* the lines written to the CSV file, in order
    serial_in,       \* what ser.readline() has returned so far, in order
    recCo            \* main(): [pc, result]

framerVars == <<message_buffer, delivered, deliveredAt, stream, hist, cbRaised>>
clientVars == <<client, device, is_connected>>
protoVars == <<cmd, validateResult>>
linkVars == <<link, subscribed, nextClient, wire>>
coVars == <<connCo, lastScan, discCo, sendCo>>
guiVars == <<ready, guiCo, keepAliveEnded>>
serverVars == <<running, server_socket, clients, client_lock, sock, acceptCo,
                handlerCo, commandCo, stopCo, failed, lastIo>>
recorderVars == <<header_written, log_file, serial_in, recCo>>
vars == <<client, device, is_connected, message_buffer,
          delivered, deliveredAt, stream, hist, cbRaised, cmd, validateResult,
          link, subscribed, nextClient, wire, connCo, lastScan, discCo, sendCo,
          ready, guiCo, keepAliveEnded,
          running, server_socket, clients, client_lock, sock, acceptCo,
          handlerCo, commandCo, stopCo, failed, lastIo,
          header_written, log_file, serial_in, recCo>>

(***************************************************************************)
(* Bounds                                                                  *)
(***************************************************************************)
MaxStream == 4    \* total number of bytes received over all notifications
MaxChunk == 3     \* bytes in one notification
MaxRaiseAt == 2   \* which callback invocation of a handler run may raise
MaxTenths == 12   \* float angles are -MaxTenths/10 .. MaxTenths/10
MaxInt == 11      \* int angles are -MaxInt .. MaxInt
MaxLevel == 7     \* speed levels tried are -1 .. MaxLevel
MaxRaw == 3       \* length of a raw text handed to _validate_command
MaxClients == 2   \* BleakClient objects one session creates
MaxSends == 1     \* send_command invocations
MaxGuiSends == 2  \* StepperMotorGUI.send_command invocations
MaxPeers == 2     \* connections the TCP server accepts
MaxBroadcasts == 2  \* send_to_all calls that find a registered peer
MaxScan == 1      \* devices in one scan result
MaxSessionStream == 1  \* bytes notified while the session is exercised
MaxLines == 3     \* lines ser.readline() returns in one run of log_recorder

(***************************************************************************)
(* Characters and bytes                                                    *)
(***************************************************************************)
NL == 10          \* '\n'
SP == 32          \* ' '
LetterA == 97     \* 'a'
LeadC2 == 194     \* 0xC2, lead byte of a two-byte UTF-8 sequence
ContB0 == 176     \* 0xB0, continuation byte; C2 B0 is U+00B0, the degree sign

\* The bytes a notification is built from.  All are below 0xE0, so only the
\* one- and two-byte forms of UTF-8 occur.
ByteAlphabet == {NL, SP, LetterA, LeadC2, ContB0}

\* Python slice s[i:j] with 0 <= i <= j <= len(s)
Slice(s, i, j) == SubSeq(s, i + 1, j)

\* str.isspace() for one character below U+0100
IsSpace(c) == c \in (9..13) \cup (28..32) \cup {133, 160}

RECURSIVE LStrip(_)
LStrip(s) ==
    IF s # <<>> /\ IsSpace(Head(s)) THEN LStrip(Tail(s)) ELSE s

RECURSIVE RStrip(_)
RStrip(s) ==
    IF s # <<>> /\ IsSpace(s[Len(s)]) THEN RStrip(Slice(s, 0, Len(s) - 1)) ELSE s

StripLeftOnly(s) == LStrip(s)

\* str.strip()
Strip(s) == RStrip(LStrip(s))

\* 0-based str.index(c); the caller guarantees that c occurs in s
Index(s, c) == (CHOOSE p \in 1..Len(s) : s[p] = c /\ \A q \in 1..(p - 1) : s[q] # c) - 1

Contains(s, c) == \E p \in 1..Len(s) : s[p] = c

(***************************************************************************)
(* bytes.decode('utf-8') and bytes.decode('utf-8', errors='ignore')        *)
(***************************************************************************)
IsLead2(b) == b \in 194..223
IsCont(b) == b \in 128..191

RECURSIVE Utf8Scan(_, _, _, _)
Utf8Scan(data, i, acc, ignore) ==
    IF i > Len(data) THEN [err |-> FALSE, text |-> acc]
    ELSE LET b == data[i] IN
         IF b < 128 THEN Utf8Scan(data, i + 1, Append(acc, b), ignore)
         ELSE IF IsLead2(b) /\ i + 1 <= Len(data) /\ IsCont(data[i + 1])
              THEN Utf8Scan(data, i + 2,
                            Append(acc, (b % 32) * 64 + (data[i + 1] % 64)), ignore)
         ELSE IF ignore THEN Utf8Scan(data, i + 1, acc, ignore)
         ELSE [err |-> TRUE, text |-> <<>>]

Utf8Decode(data, ignore) == Utf8Scan(data, 1, <<>>, ignore)

\* A decoder whose fallback gives up on the whole notification
DecodeNotificationDrop(data) ==
    LET strict == Utf8Decode(data, FALSE) IN
    IF strict.err THEN <<>> ELSE strict.text

\* lines 160-164: strict decode, falling back to errors='ignore'
DecodeNotification(data) ==
    LET strict == Utf8Decode(data, FALSE) IN
    IF strict.err THEN Utf8Decode(data, TRUE).text ELSE strict.text

(***************************************************************************)
(* _notification_handler                                                   *)
(***************************************************************************)
\* Number of newlines in a text or in a byte sequence
NLCount(s) == Cardinality({p \in 1..Len(s) : s[p] = NL})

\* lines 169-175: the while loop.  calls collects the messages passed to
\* on_status_received by this run; the raiseAt-th call raises (0: none).
\* behind collects, for each call, how many newlines the buffer still held
\* behind the line that was passed.
RECURSIVE ProcessBuffer(_, _, _, _)
ProcessBuffer(buf, calls, behind, raiseAt) ==
    IF ~Contains(buf, NL)
    THEN [buffer |-> buf, calls |-> calls, behind |-> behind, raised |-> FALSE]
    ELSE LET line_end == Index(buf, NL)
             message == Strip(Slice(buf, 0, line_end))
             rest == Slice(buf, line_end + 1, Len(buf))
         IN IF message # <<>>
            THEN IF Len(calls) + 1 = raiseAt
                 THEN [buffer |-> rest, calls |-> Append(calls, message),
                       behind |-> Append(behind, NLCount(rest)), raised |-> TRUE]
                 ELSE ProcessBuffer(rest, Append(calls, message),
                                    Append(behind, NLCount(rest)), raiseAt)
            ELSE ProcessBuffer(rest, calls, behind, raiseAt)

\* A handler that forgets the buffered fragment instead of appending to it
HandleNoRetain(buf, data, raiseAt) ==
    LET r == ProcessBuffer(DecodeNotification(data), <<>>, <<>>, raiseAt) IN
    [buffer |-> IF r.raised THEN <<>> ELSE r.buffer,
     calls |-> r.calls,
     behind |-> r.behind,
     raised |-> r.raised]

\* A handler whose except branch puts back the text it was working on
\* instead of clearing the buffer
HandleKeepOnRaise(buf, data, raiseAt) ==
    LET r == ProcessBuffer(buf \o DecodeNotification(data), <<>>, <<>>, raiseAt) IN
    [buffer |-> IF r.raised THEN buf \o DecodeNotification(data) ELSE r.buffer,
     calls |-> r.calls,
     behind |-> r.behind,
     raised |-> r.raised]

\* A handler whose except branch leaves the buffer as the loop left it
HandleLeaveRest(buf, data, raiseAt) ==
    LET r == ProcessBuffer(buf \o DecodeNotification(data), <<>>, <<>>, raiseAt) IN
    [buffer |-> r.buffer,
     calls |-> r.calls,
     behind |-> r.behind,
     raised |-> r.raised]

\* The whole handler as a function of (buffer, data): lines 158-179
Handle(buf, data, raiseAt) ==
    LET r == ProcessBuffer(buf \o DecodeNotification(data), <<>>, <<>>, raiseAt) IN
    [buffer |-> IF r.raised THEN <<>> ELSE r.buffer,
     calls |-> r.calls,
     behind |-> r.behind,
     raised |-> r.raised]

\* Notification payloads of at most n bytes
ChunksUpTo(n) == UNION {[1..m -> ByteAlphabet] : m \in 0..n}

Min(a, b) == IF a < b THEN a ELSE b

LastTwo(h) == IF Len(h) > 2 THEN Slice(h, Len(h) - 2, Len(h)) ELSE h

Notify(data, raiseAt) ==
    /\ Len(stream) + Len(data) <= MaxStream
    /\ LET r == Handle(message_buffer, data, raiseAt) IN
       /\ message_buffer' = r.buffer
       /\ delivered' = delivered \o r.calls
       /\ deliveredAt' = deliveredAt \o
              [j \in 1..Len(r.behind) |->
                  NLCount(stream \o data) - r.behind[j]]
       /\ cbRaised' = (cbRaised \/ r.raised)
       /\ hist' = LastTwo(Append(hist,
                     [chunk |-> data, bufBefore |-> message_buffer,
                      nBefore |-> Len(delivered), raised |-> r.raised]))
    /\ stream' = stream \o data
    /\ UNCHANGED <<clientVars, protoVars, linkVars, coVars, guiVars,
                   serverVars, recorderVars>>

(***************************************************************************)
(* MotorCommands: f-string formatting and the constructors                 *)
(***************************************************************************)
Digit(d) == 48 + d

\* str(n) for an int n >= 0
RECURSIVE FormatNat(_)
FormatNat(n) ==
    IF n < 10 THEN <<Digit(n)>> ELSE Append(FormatNat(n \div 10), Digit(n % 10))

\* str(n) for an int
FormatInt(n) == IF n < 0 THEN <<45>> \o FormatNat(-n) ELSE FormatNat(n)

\* repr of the float t/10 (t in tenths), e.g. -45 gives "-4.5"
FormatTenths(t) ==
    LET m == IF t < 0 THEN -t ELSE t IN
    (IF t < 0 THEN <<45>> ELSE <<>>) \o FormatNat(m \div 10) \o <<46, Digit(m % 10)>>

\* f"{angle}" for the argument kinds the callers pass
FormatAngle(angle) ==
    CASE angle.kind = "float" -> FormatTenths(angle.v)
      [] angle.kind = "int" -> FormatInt(angle.v)
      [] angle.kind = "nan" -> <<110, 97, 110>>
      [] angle.kind = "inf" -> <<105, 110, 102>>
      [] angle.kind = "-inf" -> <<45, 105, 110, 102>>

Angles ==
    {[kind |-> "float", v |-> t] : t \in (-MaxTenths)..MaxTenths}
        \cup {[kind |-> "int", v |-> n] : n \in (-MaxInt)..MaxInt}
        \cup {[kind |-> k, v |-> 0] : k \in {"nan", "inf", "-inf"}}

Levels == (-1)..MaxLevel

Returned(text) == [raised |-> FALSE, text |-> text]
Raised == [raised |-> TRUE, text |-> <<>>]

absolute_move(angle) == Returned(<<97>> \o FormatAngle(angle))
relative_move(angle) == Returned(<<114>> \o FormatAngle(angle))
reset_position == Returned(<<122>>)
get_status == Returned(<<115>>)
toggle_power_saving == Returned(<<112>>)
get_help == Returned(<<104>>)

set_speed_lax(level) ==
    IF 0 <= level /\ level <= 5 THEN Returned(<<118>> \o FormatInt(level)) ELSE Raised

set_speed(level) ==
    IF 1 <= level /\ level <= 5 THEN Returned(<<118>> \o FormatInt(level)) ELSE Raised

(***************************************************************************)
(* _validate_command                                                       *)
(***************************************************************************)
\* str.lower() for one character below U+0100
LowerChar(c) ==
    IF c \in 65..90 \/ (c \in 192..222 /\ c # 215) THEN c + 32 ELSE c

LowerNone(s) == s

\* str.lower()
Lower(s) == [i \in 1..Len(s) |-> LowerChar(s[i])]

valid_commands_no_help == {97, 114, 122, 115, 112, 118}

\* ['a', 'r', 'z', 's', 'p', 'v', 'h']
valid_commands == {97, 114, 122, 115, 112, 118, 104}

\* Returns "True" or "False"; "IndexError" stands for the exception that
\* indexing an empty string raises.
ValidateCommand(command) ==
    IF command = <<>> \/ Len(Strip(command)) = 0 THEN "False"
    ELSE LET lowered == Strip(Lower(command)) IN
         IF lowered = <<>> THEN "IndexError"
         ELSE IF lowered[1] \in valid_commands THEN "True" ELSE "False"

\* Raw texts handed to _validate_command directly
RawAlphabet == {SP, NL, 160, 97, 82, 120, 49}
RawTexts == UNION {[1..n -> RawAlphabet] : n \in 0..MaxRaw}

Built(origin, arg, r) ==
    /\ cmd' = [origin |-> origin, arg |-> arg, raised |-> r.raised, text |-> r.text]
    /\ validateResult' = "none"
    /\ UNCHANGED <<clientVars, framerVars, linkVars, coVars, guiVars,
                   serverVars, recorderVars>>

NoArg == [kind |-> "none", v |-> 0]

BuildAbsoluteMove(angle) == Built("absolute_move", angle, absolute_move(angle))
BuildRelativeMove(angle) == Built("relative_move", angle, relative_move(angle))
BuildResetPosition == Built("reset_position", NoArg, reset_position)
BuildGetStatus == Built("get_status", NoArg, get_status)
BuildTogglePowerSaving == Built("toggle_power_saving", NoArg, toggle_power_saving)
BuildGetHelp == Built("get_help", NoArg, get_help)
BuildSetSpeed(level) == Built("set_speed", [kind |-> "int", v |-> level], set_speed(level))
TakeRaw(text) == Built("raw", NoArg, Returned(text))

\* _validate_command applied to the text of the last command
Validate ==
    /\ cmd.origin # "none"
    /\ ~cmd.raised
    /\ validateResult = "none"
    /\ validateResult' = ValidateCommand(cmd.text)
    /\ UNCHANGED <<cmd, clientVars, framerVars, linkVars, coVars, guiVars,
                   serverVars, recorderVars>>

(***************************************************************************)
(* Session: find_target_device, connect, disconnect, send_command.         *)
(* A coroutine runs atomically from one await to the next; the actions     *)
(* below are those segments.                                               *)
(***************************************************************************)
\* self.client = None
NoClient == 0
ClientIds == 1..MaxClients
SendIds == 1..MaxSends
GuiSendIds == 1..MaxGuiSends
PeerIds == 1..MaxPeers
NoIo == [op |-> "none", p |-> 0, by |-> "none", held |-> FALSE]

\* BLEConfig.DEVICE_NAMES
DEVICE_NAMES == {"StepperMotor", "Arduino"}

\* Names of scanned devices; "None" is a device that advertises no name
ScanNames == {"StepperMotor", "Arduino", "Other", "None"}
ScanResults == UNION {[1..n -> ScanNames] : n \in 0..MaxScan}

IsTargetAnyNamed(name) == name # "None"

\* line 74: device.name in BLEConfig.DEVICE_NAMES
IsTarget(name) == name \in DEVICE_NAMES

\* lines 73-80: the first scanned device that is a target, or "None"
FindTarget(devices) ==
    IF \E p \in 1..Len(devices) : IsTarget(devices[p])
    THEN devices[CHOOSE p \in 1..Len(devices) :
                     IsTarget(devices[p]) /\ \A q \in 1..(p - 1) : ~IsTarget(devices[q])]
    ELSE "None"

\* str.encode('utf-8') for code points below U+0800
RECURSIVE Utf8Encode(_)
Utf8Encode(text) ==
    IF text = <<>> THEN <<>>
    ELSE LET c == Head(text) IN
         (IF c < 128 THEN <<c>> ELSE <<192 + (c \div 64), 128 + (c % 64)>>)
             \o Utf8Encode(Tail(text))

ConnIdle(result) == [pc |-> "idle", k |-> 0, result |-> result]

\* connect() is called.  Without a selected device it awaits the scan (line
\* 85); with one it creates the BleakClient and awaits client.connect()
\* (lines 90-95).
ConnectCall ==
    /\ connCo.pc = "idle"
    /\ nextClient <= MaxClients
    /\ IF device = "None"
       THEN /\ connCo' = [pc |-> "scanning", k |-> 0, result |-> "pending"]
            /\ UNCHANGED <<client, link, nextClient>>
       ELSE /\ client' = nextClient
            /\ link' = [link EXCEPT ![nextClient] = "created"]
            /\ nextClient' = nextClient + 1
            /\ connCo' = [pc |-> "opening", k |-> nextClient, result |-> "pending"]
    /\ UNCHANGED <<device, is_connected, framerVars, protoVars, subscribed,
                   wire, lastScan, discCo, sendCo, guiVars, serverVars,
                   recorderVars>>

\* BleakScanner.discover returns; find_target_device selects a device or
\* connect raises BLEConnectionError (line 86); on a match connect goes on to
\* create the BleakClient and await client.connect().
ConnectScanned(devices) ==
    /\ connCo.pc = "scanning"
    /\ lastScan' = devices
    /\ LET found == FindTarget(devices) IN
       IF found = "None"
       THEN /\ connCo' = ConnIdle("DeviceNotFound")
            /\ UNCHANGED <<client, device, link, nextClient>>
       ELSE /\ device' = found
            /\ client' = nextClient
            /\ link' = [link EXCEPT ![nextClient] = "created"]
            /\ nextClient' = nextClient + 1
            /\ connCo' = [pc |-> "opening", k |-> nextClient, result |-> "pending"]
    /\ UNCHANGED <<is_connected, framerVars, protoVars, subscribed, wire,
                   discCo, sendCo, guiVars, serverVars, recorderVars>>

\* BleakScanner.discover raises: the exception leaves connect() as it is
\* (line 85 is outside the try block).
ConnectScanFailed ==
    /\ connCo.pc = "scanning"
    /\ connCo' = ConnIdle("ScanError")
    /\ UNCHANGED <<clientVars, framerVars, protoVars, linkVars, lastScan,
                   discCo, sendCo, guiVars, serverVars, recorderVars>>

\* client.connect() completes (lines 92-98).  On success connect() calls
\* self.client.start_notify, which raises AttributeError when a disconnect
\* has reset self.client meanwhile.
ConnectOpened(outcome) ==
    /\ connCo.pc = "opening"
    /\ CASE outcome = "ok" ->
              /\ link' = [link EXCEPT ![connCo.k] = "open"]
              /\ connCo' = IF client = NoClient
                           THEN ConnIdle("ConnectFailed")
                           ELSE [pc |-> "subscribing", k |-> client, result |-> "pending"]
         [] outcome = "raise" ->
              /\ connCo' = ConnIdle("ConnectFailed")
              /\ UNCHANGED link
         [] outcome = "timeout" ->
              /\ connCo' = ConnIdle("ConnectTimeout")
              /\ UNCHANGED link
    /\ lastScan' = <<>>
    /\ UNCHANGED <<clientVars, framerVars, protoVars, subscribed, nextClient,
                   wire, discCo, sendCo, guiVars, serverVars, recorderVars>>

\* start_notify completes (lines 98-102) or raises (lines 107-109)
ConnectSubscribed(outcome) ==
    /\ connCo.pc = "subscribing"
    /\ outcome = "ok" => link[connCo.k] = "open"
    /\ IF outcome = "ok"
       THEN /\ subscribed' = subscribed \cup {connCo.k}
            /\ is_connected' = TRUE
            /\ connCo' = ConnIdle("True")
       ELSE /\ connCo' = ConnIdle("ConnectFailed")
            /\ UNCHANGED <<subscribed, is_connected>>
    /\ UNCHANGED <<client, device, framerVars, protoVars, link, nextClient,
                   wire, lastScan, discCo, sendCo, guiVars, serverVars,
                   recorderVars>>

\* disconnect() starts to run (line 113): a no-op unless client and
\* is_connected
DisconnectStart ==
    /\ discCo.pc = "idle"
    /\ discCo' = IF client # NoClient /\ is_connected
                 THEN [pc |-> "closing", k |-> client, result |-> "pending",
                       outcome |-> "none"]
                 ELSE [pc |-> "idle", k |-> 0, result |-> "returned",
                       outcome |-> "noop"]
    /\ UNCHANGED <<serverVars, recorderVars, clientVars, framerVars, protoVars,
                   linkVars, connCo, lastScan, sendCo>>

\* disconnect() called directly on the session
DisconnectCall == DisconnectStart /\ UNCHANGED guiVars

DisconnectFinallyOnSuccessOnly(outcome) ==
    IF outcome = "ok"
    THEN [is_connected |-> FALSE, client |-> NoClient]
    ELSE [is_connected |-> is_connected, client |-> client]

\* lines 119-121: the finally block
DisconnectFinally(outcome) == [is_connected |-> FALSE, client |-> NoClient]

\* client.disconnect() completes or raises (lines 115-121)
DisconnectClosed(outcome) ==
    /\ discCo.pc = "closing"
    /\ IF outcome = "ok"
       THEN link' = [link EXCEPT ![discCo.k] = "closed"]
       ELSE UNCHANGED link
    /\ is_connected' = DisconnectFinally(outcome).is_connected
    /\ client' = DisconnectFinally(outcome).client
    /\ discCo' = [pc |-> "idle", k |-> 0, result |-> "returned", outcome |-> outcome]
    /\ UNCHANGED <<device, framerVars, protoVars, subscribed, nextClient, wire,
                   connCo, lastScan, sendCo, guiVars, serverVars, recorderVars>>

SendDecisionNoValidate(text) ==
    IF ~is_connected \/ client = NoClient THEN "NotConnected" ELSE "Write"

SendDecisionNoConnectedCheck(text) ==
    IF client = NoClient THEN "NotConnected"
    ELSE IF ValidateCommand(text) # "True" THEN "InvalidCommand"
    ELSE "Write"

\* lines 125-135: what send_command does with a command text
SendDecision(text) ==
    IF ~is_connected \/ client = NoClient THEN "NotConnected"
    ELSE IF ValidateCommand(text) # "True" THEN "InvalidCommand"
    ELSE "Write"

\* Command texts handed to send_command: "s", "x" and ""
SendTexts == {get_status.text, <<120>>, <<>>}

\* send_command(text) starts to run: it returns False (lines 125-133) or
\* calls write_gatt_char and awaits it (lines 135-138).  Invocation i is the
\* i-th call of send_command.
SendStart(i, text) ==
    /\ sendCo[i].pc = "idle"
    /\ LET d == SendDecision(text) IN
       IF d = "Write"
       THEN /\ wire' = Append(wire, [by |-> i, k |-> client, text |-> text,
                                     data |-> Utf8Encode(text)])
            /\ sendCo' = [sendCo EXCEPT ![i] =
                             [pc |-> "writing", text |-> text, k |-> client,
                              result |-> "pending"]]
       ELSE /\ sendCo' = [sendCo EXCEPT ![i] =
                             [pc |-> "done", text |-> text, k |-> 0, result |-> d]]
            /\ UNCHANGED wire
    /\ UNCHANGED <<serverVars, recorderVars, clientVars, framerVars, protoVars,
                   link, subscribed, nextClient, connCo, lastScan, discCo>>

\* send_command called directly on the session
SendCall(i, text) ==
    /\ \A j \in 1..(i - 1) : sendCo[j].pc # "idle"
    /\ SendStart(i, text)
    /\ UNCHANGED guiVars

\* write_gatt_char completes (line 140) or raises (lines 142-144)
SendWritten(i, outcome) ==
    /\ sendCo[i].pc = "writing"
    /\ outcome = "ok" => link[sendCo[i].k] = "open"
    /\ sendCo' = [sendCo EXCEPT ![i].pc = "done",
                                ![i].result = IF outcome = "ok" THEN "True"
                                              ELSE "WriteError"]
    /\ UNCHANGED <<clientVars, framerVars, protoVars, linkVars, connCo,
                   lastScan, discCo, guiVars, serverVars, recorderVars>>

\* The peer or the radio ends an open link; the client registers no
\* disconnected callback, so no field of the session changes.
PeerClose(k) ==
    /\ link[k] = "open"
    /\ link' = [link EXCEPT ![k] = "closed"]
    /\ UNCHANGED <<clientVars, framerVars, protoVars, subscribed, nextClient,
                   wire, coVars, guiVars, serverVars, recorderVars>>

SessionChunks == {<<LetterA>>, <<NL>>}

\* A subscribed, open link delivers a notification
SessionNotify(data) ==
    /\ \E k \in subscribed : link[k] = "open"
    /\ Len(stream) + Len(data) <= MaxSessionStream
    /\ Notify(data, 0)

(***************************************************************************)
(* StepperMotorGUI (ble_gui.py): the GUI thread hands coroutines of one    *)
(* session to the event loop that _connect_thread runs                     *)
(***************************************************************************)
\* _connect_async creates the BLEStepperClient and awaits its connect()
\* (ble_gui.py lines 354-357), once per session object.
GuiConnect ==
    /\ connCo = ConnIdle("none")
    /\ ConnectCall

\* run_until_complete(_connect_async()) is still running the loop: connect()
\* has not ended, or it succeeded and the keep-alive loop has not ended.
LoopRunning ==
    \/ connCo.pc # "idle"
    \/ connCo.result = "True" /\ ~keepAliveEnded

\* ble_gui.py lines 363-364: the keep-alive loop wakes up, finds
\* is_connected false and _connect_async returns, which stops the loop.
KeepAliveExit ==
    /\ connCo = ConnIdle("True")
    /\ ~keepAliveEnded
    /\ ~is_connected
    /\ keepAliveEnded' = TRUE
    /\ UNCHANGED <<clientVars, framerVars, protoVars, linkVars, coVars, ready,
                   guiCo, serverVars, recorderVars>>

\* The GUI thread runs one callback at a time: it is inside send_command
\* while that waits for the future.
GuiBusy == \E i \in GuiSendIds : guiCo[i].pc = "waiting"

\* StepperMotorGUI.send_command (ble_gui.py lines 442-451): refused when the
\* session is not connected, otherwise the coroutine is handed to the loop
\* and the GUI thread waits for its result.
GuiSendCommand(i, text) ==
    /\ guiCo[i].pc = "idle"
    /\ \A j \in 1..(i - 1) : guiCo[j].pc = "returned"
    /\ IF connCo = ConnIdle("none") \/ ~is_connected
       THEN /\ guiCo' = [guiCo EXCEPT ![i] = [pc |-> "returned", text |-> text,
                                               result |-> "NotConnected"]]
            /\ UNCHANGED ready
       ELSE /\ guiCo' = [guiCo EXCEPT ![i] = [pc |-> "waiting", text |-> text,
                                               result |-> "pending"]]
            /\ ready' = Append(ready, [kind |-> "send", i |-> i, text |-> text])
    /\ UNCHANGED <<clientVars, framerVars, protoVars, linkVars, coVars,
                   keepAliveEnded, serverVars, recorderVars>>

\* future.result returns what send_command returned (lines 454-457)
GuiSendReturned(i) ==
    /\ guiCo[i].pc = "waiting"
    /\ sendCo[i].pc = "done"
    /\ guiCo' = [guiCo EXCEPT ![i].pc = "returned",
                              ![i].result = IF sendCo[i].result = "True" THEN "True"
                                            ELSE "False"]
    /\ UNCHANGED <<clientVars, framerVars, protoVars, linkVars, coVars, ready,
                   keepAliveEnded, serverVars, recorderVars>>

SendTimeoutDisconnects == [is_connected |-> FALSE, client |-> NoClient]

\* lines 458-460: the timeout branch writes no field of the session
SendTimeout == [is_connected |-> is_connected, client |-> client]

\* future.result(timeout=2.0) gives up (lines 454-460); the future is not
\* cancelled.  future.result raises concurrent.futures.TimeoutError and the
\* except clause names asyncio.TimeoutError: where both are one class the
\* branch logs and returns False (caught), where they differ (Python 3.8 to
\* 3.10) the exception leaves send_command.
GuiSendTimedOut(i, caught) ==
    /\ guiCo[i].pc = "waiting"
    /\ sendCo[i].pc # "done"
    /\ guiCo' = [guiCo EXCEPT ![i].pc = "returned",
                              ![i].result = IF caught THEN "Timeout"
                                            ELSE "TimeoutRaised"]
    /\ is_connected' = SendTimeout.is_connected
    /\ client' = SendTimeout.client
    /\ UNCHANGED <<device, framerVars, protoVars, linkVars, coVars, ready,
                   keepAliveEnded, serverVars, recorderVars>>

\* StepperMotorGUI.disconnect (lines 394-395) hands disconnect() to the loop
\* and does not wait for it.
GuiDisconnect ==
    /\ connCo # ConnIdle("none")
    /\ ~GuiBusy
    /\ discCo.pc = "idle"
    /\ \A j \in 1..Len(ready) : ready[j].kind # "disconnect"
    /\ ready' = Append(ready, [kind |-> "disconnect", i |-> 0, text |-> <<>>])
    /\ UNCHANGED <<clientVars, framerVars, protoVars, linkVars, coVars, guiCo,
                   keepAliveEnded, serverVars, recorderVars>>

DequeueNewest(q) == [task |-> q[Len(q)], rest |-> SubSeq(q, 1, Len(q) - 1)]

\* The loop starts the coroutines in the order in which
\* run_coroutine_threadsafe was called.
Dequeue(q) == [task |-> Head(q), rest |-> Tail(q)]

\* The loop starts a send_command coroutine, up to its first await
LoopStartSend ==
    /\ LoopRunning
    /\ ready # <<>>
    /\ Dequeue(ready).task.kind = "send"
    /\ SendStart(Dequeue(ready).task.i, Dequeue(ready).task.text)
    /\ ready' = Dequeue(ready).rest
    /\ UNCHANGED <<guiCo, keepAliveEnded>>

\* The loop starts a disconnect coroutine, up to its first await
LoopStartDisconnect ==
    /\ LoopRunning
    /\ ready # <<>>
    /\ Dequeue(ready).task.kind = "disconnect"
    /\ DisconnectStart
    /\ ready' = Dequeue(ready).rest
    /\ UNCHANGED <<guiCo, keepAliveEnded>>

\* The running loop resumes a coroutine of the session
LoopResume ==
    /\ LoopRunning
    /\ \/ \E devices \in ScanResults : ConnectScanned(devices)
       \/ ConnectScanFailed
       \/ \E outcome \in {"ok", "raise", "timeout"} : ConnectOpened(outcome)
       \/ \E outcome \in {"ok", "raise"} : ConnectSubscribed(outcome)
       \/ \E outcome \in {"ok", "raise"} : DisconnectClosed(outcome)
       \/ \E i \in GuiSendIds, outcome \in {"ok", "raise"} : SendWritten(i, outcome)

(***************************************************************************)
(* ArduinoTCPServer (src/test/wifi_communication_test/pc_tcp_server.py):   *)
(* main thread, accept thread, command thread and one handler thread per   *)
(* peer.  A with-block on client_lock that performs no socket operation is *)
(* one step; send_to_all and stop hold the lock over several steps.        *)
(***************************************************************************)
sessionVars == <<clientVars, framerVars, protoVars, linkVars, coVars, guiVars>>

\* The peers in the registry
Registered == {clients[j] : j \in 1..Len(clients)}

\* lines 138-139: the list without the entries of address p
RECURSIVE Without(_, _)
Without(list, p) ==
    IF list = <<>> THEN <<>>
    ELSE IF Head(list) = p THEN Without(Tail(list), p)
    ELSE <<Head(list)>> \o Without(Tail(list), p)

\* start() (lines 31-58): the socket listens, running is set and the accept
\* and command threads are started.
ServerStart ==
    /\ server_socket = "None"
    /\ stopCo.pc = "idle" /\ stopCo.calls = 0
    /\ server_socket' = "listening"
    /\ running' = TRUE
    /\ acceptCo' = [pc |-> "accepting", p |-> 0]
    /\ commandCo' = [commandCo EXCEPT !.pc = "input"]
    /\ UNCHANGED <<sessionVars, recorderVars, clients, client_lock, sock,
                   handlerCo, stopCo, failed, lastIo>>

\* accept() returns the connection of peer p and the handler thread is
\* started (lines 95-104).  Peers connect in the order of their ids.
AcceptPeer(p) ==
    /\ acceptCo.pc = "accepting"
    /\ server_socket = "listening"
    /\ sock[p] = "unused"
    /\ \A q \in 1..(p - 1) : sock[q] # "unused"
    /\ sock' = [sock EXCEPT ![p] = "open"]
    /\ handlerCo' = [handlerCo EXCEPT ![p] = "recv"]
    /\ acceptCo' = [pc |-> "register", p |-> p]
    /\ UNCHANGED <<sessionVars, recorderVars, running, server_socket, clients,
                   client_lock, commandCo, stopCo, failed, lastIo>>

\* lines 107-108 and the loop test of line 93
AcceptRegister ==
    /\ acceptCo.pc = "register"
    /\ client_lock = "free"
    /\ clients' = Append(clients, acceptCo.p)
    /\ acceptCo' = [pc |-> IF running THEN "accepting" ELSE "ended", p |-> 0]
    /\ UNCHANGED <<sessionVars, recorderVars, running, server_socket,
                   client_lock, sock, handlerCo, commandCo, stopCo, failed,
                   lastIo>>

\* accept() raises on the closed server socket (lines 110-113)
AcceptFailed ==
    /\ acceptCo.pc = "accepting"
    /\ server_socket = "closed"
    /\ acceptCo' = [pc |-> "ended", p |-> 0]
    /\ UNCHANGED <<sessionVars, recorderVars, running, server_socket, clients,
                   client_lock, sock, handlerCo, commandCo, stopCo, failed,
                   lastIo>>

\* The peer goes away: recv returns no data and sendall raises from now on
PeerReset(p) ==
    /\ sock[p] = "open"
    /\ sock' = [sock EXCEPT ![p] = "broken"]
    /\ UNCHANGED <<sessionVars, recorderVars, running, server_socket, clients,
                   client_lock, acceptCo, handlerCo, commandCo, stopCo, failed,
                   lastIo>>

\* handle_client leaves its loop (recv returned no data or raised, or running
\* is false at the loop test) and closes the socket (lines 118-136).
HandleClientClose(p) ==
    /\ handlerCo[p] = "recv"
    /\ sock[p] \in {"broken", "closed"} \/ ~running
    /\ sock' = [sock EXCEPT ![p] = "closed"]
    /\ lastIo' = [op |-> "close", p |-> p, by |-> "handler",
                  held |-> client_lock = "handler"]
    /\ handlerCo' = [handlerCo EXCEPT ![p] = "unregister"]
    /\ UNCHANGED <<sessionVars, recorderVars, running, server_socket, clients,
                   client_lock, acceptCo, commandCo, stopCo, failed>>

\* lines 137-139
HandleClientUnregister(p) ==
    /\ handlerCo[p] = "unregister"
    /\ client_lock = "free"
    /\ clients' = Without(clients, p)
    /\ handlerCo' = [handlerCo EXCEPT ![p] = "ended"]
    /\ UNCHANGED <<sessionVars, recorderVars, running, server_socket,
                   client_lock, sock, acceptCo, commandCo, stopCo, failed,
                   lastIo>>

\* send_to_all takes the lock (line 198); with an empty registry it returns
\* at once (lines 199-201).
SendToAllLock ==
    /\ commandCo.pc = "input"
    /\ running
    /\ commandCo.count < MaxBroadcasts
    /\ client_lock = "free"
    /\ clients # <<>>
    /\ client_lock' = "command"
    /\ commandCo' = [pc |-> "sending", idx |-> 1, tried |-> <<>>,
                     count |-> commandCo.count + 1]
    /\ UNCHANGED <<sessionVars, recorderVars, running, server_socket, clients,
                   sock, acceptCo, handlerCo, stopCo, failed, lastIo>>

\* One iteration of the loop of lines 203-208: sendall to the next peer of
\* the registry returns, or raises and is printed (lines 207-208).
SendToAllWrite(outcome) ==
    /\ commandCo.pc = "sending"
    /\ commandCo.idx <= Len(clients)
    /\ LET p == clients[commandCo.idx] IN
       /\ outcome = "ok" => sock[p] \in {"open", "broken"}
       /\ outcome = "raise" => sock[p] \in {"broken", "closed"}
       /\ lastIo' = [op |-> "send", p |-> p, by |-> "command",
                     held |-> client_lock = "command"]
       /\ failed' = IF outcome = "ok" THEN failed ELSE failed \cup {p}
       /\ commandCo' = [commandCo EXCEPT
                           !.idx = @ + 1,
                           !.tried = Append(@, [p |-> p, ok |-> outcome = "ok"])]
    /\ UNCHANGED <<sessionVars, recorderVars, running, server_socket, clients,
                   client_lock, sock, acceptCo, handlerCo, stopCo>>

\* The loop is over and the with-block releases the lock
SendToAllUnlock ==
    /\ commandCo.pc = "sending"
    /\ commandCo.idx > Len(clients)
    /\ client_lock' = "free"
    /\ commandCo' = [commandCo EXCEPT !.pc = "input", !.idx = 0]
    /\ UNCHANGED <<sessionVars, recorderVars, running, server_socket, clients,
                   sock, acceptCo, handlerCo, stopCo, failed, lastIo>>

\* The command quit (lines 160-163)
CommandQuit ==
    /\ commandCo.pc = "input"
    /\ running
    /\ running' = FALSE
    /\ commandCo' = [commandCo EXCEPT !.pc = "ended"]
    /\ UNCHANGED <<sessionVars, recorderVars, server_socket, clients,
                   client_lock, sock, acceptCo, handlerCo, stopCo, failed,
                   lastIo>>

\* The loop test of command_loop finds running false (line 156)
CommandEnd ==
    /\ commandCo.pc = "input"
    /\ ~running
    /\ commandCo' = [commandCo EXCEPT !.pc = "ended"]
    /\ UNCHANGED <<sessionVars, recorderVars, running, server_socket, clients,
                   client_lock, sock, acceptCo, handlerCo, stopCo, failed,
                   lastIo>>

\* stop() is called from the finally of start() and again from that of
\* main() (lines 69 and 237), after quit or an interrupt.
StopCalls == 2

\* line 73
StopCall ==
    /\ server_socket # "None"
    /\ stopCo.pc = "idle"
    /\ stopCo.calls < StopCalls
    /\ running' = FALSE
    /\ stopCo' = [pc |-> "lock", idx |-> 0, calls |-> stopCo.calls + 1]
    /\ UNCHANGED <<sessionVars, recorderVars, server_socket, clients,
                   client_lock, sock, acceptCo, handlerCo, commandCo, failed,
                   lastIo>>

\* line 76
StopLock ==
    /\ stopCo.pc = "lock"
    /\ client_lock = "free"
    /\ client_lock' = "stop"
    /\ stopCo' = [stopCo EXCEPT !.pc = "closing", !.idx = 1]
    /\ UNCHANGED <<sessionVars, recorderVars, running, server_socket, clients,
                   sock, acceptCo, handlerCo, commandCo, failed, lastIo>>

\* One iteration of the loop of lines 77-81
StopClose ==
    /\ stopCo.pc = "closing"
    /\ stopCo.idx <= Len(clients)
    /\ LET p == clients[stopCo.idx] IN
       /\ sock' = [sock EXCEPT ![p] = "closed"]
       /\ lastIo' = [op |-> "close", p |-> p, by |-> "stop",
                     held |-> client_lock = "stop"]
    /\ stopCo' = [stopCo EXCEPT !.idx = @ + 1]
    /\ UNCHANGED <<sessionVars, recorderVars, running, server_socket, clients,
                   client_lock, acceptCo, handlerCo, commandCo, failed>>

\* line 82 and the end of the with-block
StopClear ==
    /\ stopCo.pc = "closing"
    /\ stopCo.idx > Len(clients)
    /\ clients' = <<>>
    /\ client_lock' = "free"
    /\ stopCo' = [stopCo EXCEPT !.pc = "server", !.idx = 0]
    /\ UNCHANGED <<sessionVars, recorderVars, running, server_socket, sock,
                   acceptCo, handlerCo, commandCo, failed, lastIo>>

\* lines 85-89
StopServerSocket ==
    /\ stopCo.pc = "server"
    /\ server_socket' = "closed"
    /\ stopCo' = [stopCo EXCEPT !.pc = "idle"]
    /\ UNCHANGED <<sessionVars, recorderVars, running, clients, client_lock,
                   sock, acceptCo, handlerCo, commandCo, failed, lastIo>>

(***************************************************************************)
(* log_recorder.main (src/oldversion/stepper_simple_angle/log_recorder.py) *)
(* One step is one pass of the while loop: readline, decode, strip and the *)
(* writes that follow.  KeyboardInterrupt arrives while the loop waits in  *)
(* readline or sleep.                                                      *)
(***************************************************************************)
LogPrefix == <<76, 79, 71, 58>>    \* "LOG:"
HeaderWord == <<116, 105, 109, 101, 115, 116, 97, 109, 112>>    \* "timestamp"
DefaultHeader == HeaderWord \o <<44, 97, 110, 103, 108, 101>>   \* "timestamp,angle"

\* str.startswith
StartsWith(s, prefix) == Len(s) >= Len(prefix) /\ SubSeq(s, 1, Len(prefix)) = prefix

\* Values ser.readline() returns (timeout=1): nothing on a timeout, a line
\* with its terminator, or the part of a line that arrived before a timeout.
SerialLines ==
    { <<>>,                                          \* timeout
      <<NL>>,                                        \* empty line
      <<82, 101, 97, 100, 121, 13, NL>>,             \* "Ready\r\n"
      <<49, 44, 57, NL>>,                            \* "1,9\n"
      HeaderWord \o <<NL>>,                          \* "timestamp\n"
      <<108, 111, 103, 58, 52, NL>>,                 \* "log:4\n"
      LogPrefix \o HeaderWord \o <<NL>>,             \* "LOG:timestamp\n"
      LogPrefix \o HeaderWord \o <<44, 115, NL>>,    \* "LOG:timestamp,s\n"
      LogPrefix \o <<49, 44, 57, 13, NL>>,           \* "LOG:1,9\r\n"
      LogPrefix \o <<50, 44, 53, NL>>,               \* "LOG:2,5\n"
      <<SP>> \o LogPrefix \o <<51, NL>>,             \* " LOG:3\n"
      LogPrefix,                                     \* "LOG:" cut by a timeout
      LogPrefix \o <<SP>> \o HeaderWord \o <<NL>>,   \* "LOG: timestamp\n"
      LogPrefix \o <<LeadC2, ContB0, NL>>,           \* "LOG:" degree sign "\n"
      LogPrefix \o <<49, LeadC2, NL>> }              \* "LOG:1" and a stray byte

\* A loop body that writes every header line it receives
RecorderIterationRepeatHeader(hw, file, raw) ==
    LET d == Utf8Decode(raw, FALSE) IN
    IF d.err THEN [header_written |-> hw, log_file |-> file, raised |-> TRUE]
    ELSE LET line == Strip(d.text) IN
         IF line = <<>> \/ ~StartsWith(line, LogPrefix)
         THEN [header_written |-> hw, log_file |-> file, raised |-> FALSE]
         ELSE LET log_data == Slice(line, 4, Len(line)) IN
              IF StartsWith(log_data, HeaderWord)
              THEN [header_written |-> TRUE, log_file |-> Append(file, log_data),
                    raised |-> FALSE]
              ELSE [header_written |-> TRUE,
                    log_file |-> (IF hw THEN file ELSE Append(file, DefaultHeader))
                                    \o <<log_data>>,
                    raised |-> FALSE]

\* lines 63-90: one pass of the loop on the bytes raw returned by readline.
\* decode('utf-8') is strict and its UnicodeDecodeError is caught nowhere.
RecorderIteration(hw, file, raw) ==
    LET d == Utf8Decode(raw, FALSE) IN
    IF d.err THEN [header_written |-> hw, log_file |-> file, raised |-> TRUE]
    ELSE LET line == Strip(d.text) IN
         IF line = <<>> \/ ~StartsWith(line, LogPrefix)
         THEN [header_written |-> hw, log_file |-> file, raised |-> FALSE]
         ELSE LET log_data == Slice(line, 4, Len(line)) IN
              IF StartsWith(log_data, HeaderWord)
              THEN IF ~hw
                   THEN [header_written |-> TRUE, log_file |-> Append(file, log_data),
                         raised |-> FALSE]
                   ELSE [header_written |-> hw, log_file |-> file, raised |-> FALSE]
              ELSE [header_written |-> TRUE,
                    log_file |-> (IF hw THEN file ELSE Append(file, DefaultHeader))
                                    \o <<log_data>>,
                    raised |-> FALSE]

\* lines 52-59: the serial port opens, header_written is cleared and the
\* log file is opened for writing
RecorderStart ==
    /\ recCo.pc = "idle"
    /\ recCo.result = "none"
    /\ header_written' = FALSE
    /\ log_file' = <<>>
    /\ recCo' = [pc |-> "reading", result |-> "pending"]
    /\ UNCHANGED <<sessionVars, serverVars, serial_in>>

\* serial.Serial raises SerialException (lines 98-100): main returns before
\* the log file is opened
RecorderOpenFailed ==
    /\ recCo.pc = "idle"
    /\ recCo.result = "none"
    /\ recCo' = [pc |-> "idle", result |-> "SerialException"]
    /\ UNCHANGED <<sessionVars, serverVars, header_written, log_file, serial_in>>

\* One pass of the while loop (lines 61-93)
RecorderReadLine(raw) ==
    /\ recCo.pc = "reading"
    /\ Len(serial_in) < MaxLines
    /\ serial_in' = Append(serial_in, raw)
    /\ LET r == RecorderIteration(header_written, log_file, raw) IN
       /\ header_written' = r.header_written
       /\ log_file' = r.log_file
       /\ recCo' = IF r.raised
                   THEN [pc |-> "idle", result |-> "UnicodeDecodeError"]
                   ELSE recCo
    /\ UNCHANGED <<sessionVars, serverVars>>

\* Ctrl+C (lines 95-96): the loop ends and the with-block closes the file
RecorderInterrupt ==
    /\ recCo.pc = "reading"
    /\ recCo' = [pc |-> "idle", result |-> "KeyboardInterrupt"]
    /\ UNCHANGED <<sessionVars, serverVars, header_written, log_file, serial_in>>

(***************************************************************************)
(* Specifications                                                          *)
(***************************************************************************)
Init ==
    /\ client = NoClient
    /\ device = "None"
    /\ is_connected = FALSE
    /\ message_buffer = <<>>
    /\ delivered = <<>>
    /\ deliveredAt = <<>>
    /\ stream = <<>>
    /\ hist = <<>>
    /\ cbRaised = FALSE
    /\ cmd = [origin |-> "none", arg |-> NoArg, raised |-> FALSE, text |-> <<>>]
    /\ validateResult = "none"
    /\ link = [k \in ClientIds |-> "unused"]
    /\ subscribed = {}
    /\ nextClient = 1
    /\ wire = <<>>
    /\ connCo = ConnIdle("none")
    /\ lastScan = <<>>
    /\ discCo = [pc |-> "idle", k |-> 0, result |-> "none", outcome |-> "none"]
    /\ sendCo = [i \in SendIds \cup GuiSendIds |->
                    [pc |-> "idle", text |-> <<>>, k |-> 0, result |-> "none"]]
    /\ ready = <<>>
    /\ guiCo = [i \in GuiSendIds |-> [pc |-> "idle", text |-> <<>>, result |-> "none"]]
    /\ keepAliveEnded = FALSE
    /\ running = FALSE
    /\ server_socket = "None"
    /\ clients = <<>>
    /\ client_lock = "free"
    /\ sock = [p \in PeerIds |-> "unused"]
    /\ acceptCo = [pc |-> "idle", p |-> 0]
    /\ handlerCo = [p \in PeerIds |-> "idle"]
    /\ commandCo = [pc |-> "idle", idx |-> 0, tried |-> <<>>, count |-> 0]
    /\ stopCo = [pc |-> "idle", idx |-> 0, calls |-> 0]
    /\ failed = {}
    /\ lastIo = NoIo
    /\ header_written = FALSE
    /\ log_file = <<>>
    /\ serial_in = <<>>
    /\ recCo = [pc |-> "idle", result |-> "none"]

FramerNext ==
    \E data \in ChunksUpTo(Min(MaxChunk, MaxStream - Len(stream))),
       raiseAt \in 0..MaxRaiseAt : Notify(data, raiseAt)

FramerSpec == Init /\ [][FramerNext]_vars

ProtoNext ==
    \/ \E angle \in Angles : BuildAbsoluteMove(angle)
    \/ \E angle \in Angles : BuildRelativeMove(angle)
    \/ BuildResetPosition
    \/ BuildGetStatus
    \/ BuildTogglePowerSaving
    \/ BuildGetHelp
    \/ \E level \in Levels : BuildSetSpeed(level)
    \/ \E text \in RawTexts : TakeRaw(text)
    \/ Validate

ProtoSpec == Init /\ [][ProtoNext]_vars

Next ==
    \/ ConnectCall
    \/ \E devices \in ScanResults : ConnectScanned(devices)
    \/ ConnectScanFailed
    \/ \E outcome \in {"ok", "raise", "timeout"} : ConnectOpened(outcome)
    \/ \E outcome \in {"ok", "raise"} : ConnectSubscribed(outcome)
    \/ DisconnectCall
    \/ \E outcome \in {"ok", "raise"} : DisconnectClosed(outcome)
    \/ \E i \in SendIds, text \in SendTexts : SendCall(i, text)
    \/ \E i \in SendIds, outcome \in {"ok", "raise"} : SendWritten(i, outcome)
    \/ \E k \in ClientIds : PeerClose(k)
    \/ \E data \in SessionChunks : SessionNotify(data)

Spec == Init /\ [][Next]_vars

GuiNext ==
    \/ GuiConnect
    \/ \E i \in GuiSendIds, text \in SendTexts : GuiSendCommand(i, text)
    \/ \E i \in GuiSendIds : GuiSendReturned(i)
    \/ \E i \in GuiSendIds, caught \in BOOLEAN : GuiSendTimedOut(i, caught)
    \/ GuiDisconnect
    \/ LoopStartSend
    \/ LoopStartDisconnect
    \/ LoopResume
    \/ KeepAliveExit
    \/ \E k \in ClientIds : PeerClose(k)

GuiSpec == Init /\ [][GuiNext]_vars

ServerNext ==
    \/ ServerStart
    \/ \E p \in PeerIds : AcceptPeer(p)
    \/ AcceptRegister
    \/ AcceptFailed
    \/ \E p \in PeerIds : PeerReset(p)
    \/ \E p \in PeerIds : HandleClientClose(p)
    \/ \E p \in PeerIds : HandleClientUnregister(p)
    \/ SendToAllLock
    \/ \E outcome \in {"ok", "raise"} : SendToAllWrite(outcome)
    \/ SendToAllUnlock
    \/ CommandQuit
    \/ CommandEnd
    \/ StopCall
    \/ StopLock
    \/ StopClose
    \/ StopClear
    \/ StopServerSocket

ServerSpec == Init /\ [][ServerNext]_vars

RecorderNext ==
    \/ RecorderStart
    \/ RecorderOpenFailed
    \/ \E raw \in SerialLines : RecorderReadLine(raw)
    \/ RecorderInterrupt

RecorderSpec == Init /\ [][RecorderNext]_vars

\* The steps the event loop takes on its own: a coroutine suspended at an
\* await is resumed once the awaited transport operation has ended.
Resume ==
    \/ \E devices \in ScanResults : ConnectScanned(devices)
    \/ ConnectScanFailed
    \/ \E outcome \in {"ok", "raise", "timeout"} : ConnectOpened(outcome)
    \/ \E outcome \in {"ok", "raise"} : ConnectSubscribed(outcome)
    \/ \E outcome \in {"ok", "raise"} : DisconnectClosed(outcome)
    \/ \E i \in SendIds, outcome \in {"ok", "raise"} : SendWritten(i, outcome)

\* Spec with a fair event loop.  Calls of connect, disconnect and
\* send_command, and what the peer does, are not forced to happen.
LiveSpec == Init /\ [][Next]_vars /\ WF_vars(Resume)

(***************************************************************************)
(* Properties of the inbound framer (FramerSpec)                           *)
(***************************************************************************)

\* C1 (as stated): as long as no callback raised, the messages delivered over
\* any chunking of the received bytes are the messages one notification
\* carrying all of those bytes delivers.
C1_ChunkIndependence ==
    ~cbRaised => delivered = Handle(<<>>, stream, 0).calls

\* The last two notifications are one line split in two: the buffer was empty,
\* the first chunk is a non-empty fragment without newline, the second chunk
\* is the rest and its only newline is its last byte.
IsSplitLine ==
    /\ Len(hist) = 2
    /\ hist[1].bufBefore = <<>>
    /\ hist[1].chunk # <<>>
    /\ ~Contains(hist[1].chunk, NL)
    /\ hist[2].chunk # <<>>
    /\ Index(hist[2].chunk \o <<NL>>, NL) = Len(hist[2].chunk) - 1

\* Text of the split line: both fragments as decoded, newline removed
SplitLineText ==
    DecodeNotification(hist[1].chunk)
        \o DecodeNotification(Slice(hist[2].chunk, 0, Len(hist[2].chunk) - 1))

DeliveredSince(n) == Slice(delivered, n, Len(delivered))

C3_EmptyLineSuppression ==
    /\ \A i \in 1..Len(delivered) :
          LET m == delivered[i] IN
          /\ m # <<>>
          /\ ~IsSpace(m[1])
          /\ ~IsSpace(m[Len(m)])
          /\ ~Contains(m, NL)
    /\ (\A p \in 1..Len(stream) : stream[p] \in {NL, SP}) => delivered = <<>>

\* A blank line and an indented line were received; only the trimmed text of
\* the indented line was delivered.
C3_Witness ==
    /\ stream = <<NL, SP, LetterA, NL>>
    /\ delivered = << <<LetterA>> >>

\* C16 (as stated): when the callback raised during the last notification,
\* the messages delivered by that notification and the buffer left behind
\* are those of the same notification with a callback that does not raise.
C16_SubscriberFailureIsolation ==
    (Len(hist) > 0 /\ hist[Len(hist)].raised) =>
        LET h == hist[Len(hist)]
            r == Handle(h.bufBefore, h.chunk, 0)
        IN /\ DeliveredSince(h.nBefore) = r.calls
           /\ message_buffer = r.buffer

\* C20: the messages are passed in the order in which their terminating
\* newlines were received, no newline ends two messages, and every message
\* is ended by a newline that was received.
C20_InboundOrdering ==
    /\ Len(deliveredAt) = Len(delivered)
    /\ \A i \in 1..Len(deliveredAt) : deliveredAt[i] \in 1..NLCount(stream)
    /\ \A i, j \in 1..Len(deliveredAt) : i < j => deliveredAt[i] < deliveredAt[j]

\* Two notifications delivered one message each, the first and then the
\* second line of the stream.
C20_Witness ==
    /\ Len(hist) = 2
    /\ hist[1].nBefore = 0
    /\ hist[2].nBefore = 1
    /\ deliveredAt = <<1, 2>>
    /\ Len(delivered) = 2

\* What the handler does with the text t appended to the buffer buf when
\* the k-th callback invocation raises (0: none)
C22_Processed(buf, t, k) == ProcessBuffer(buf \o t, <<>>, <<>>, k)

\* C22: a notification whose bytes fail strict UTF-8 decoding is processed
\* as the notification of its decodable text: that text is appended to the
\* fragment buffered before, every line completed is passed on, and the
\* unterminated rest stays buffered; when the callback raised, the lines up
\* to the raising one were passed as for any other notification.
C22_DecodeFailureNonFatal ==
    (Len(hist) > 0 /\ Utf8Decode(hist[Len(hist)].chunk, FALSE).err) =>
        LET h == hist[Len(hist)]
            t == Utf8Decode(h.chunk, TRUE).text
        IN IF h.raised
           THEN \E k \in 1..MaxRaiseAt :
                   /\ C22_Processed(h.bufBefore, t, k).raised
                   /\ DeliveredSince(h.nBefore) = C22_Processed(h.bufBefore, t, k).calls
           ELSE /\ DeliveredSince(h.nBefore) = C22_Processed(h.bufBefore, t, 0).calls
                /\ message_buffer = C22_Processed(h.bufBefore, t, 0).buffer

\* 'a' was buffered; the notification C2 0A 'a' fails strict decoding, the
\* line 'a' is passed on and the new fragment 'a' is buffered.
C22_Witness ==
    /\ Len(hist) > 0
    /\ hist[Len(hist)].chunk = <<LeadC2, NL, LetterA>>
    /\ hist[Len(hist)].bufBefore = <<LetterA>>
    /\ ~hist[Len(hist)].raised
    /\ DeliveredSince(hist[Len(hist)].nBefore) = <<(<<LetterA>>)>>
    /\ message_buffer = <<LetterA>>

\* C23: after every return of the notification handler the buffer holds
\* no newline, whether or not the callback raised.
C23_BufferHoldsNoNewline == ~Contains(message_buffer, NL)

\* The callback raised on the first of two lines of one notification and
\* the handler returned with a buffer free of newlines.
C23_Witness ==
    /\ Len(hist) > 0
    /\ hist[Len(hist)].raised
    /\ NLCount(hist[Len(hist)].chunk) = 2
    /\ Len(delivered) = hist[Len(hist)].nBefore + 1
    /\ ~Contains(message_buffer, NL)

(***************************************************************************)
(* Properties of the command protocol (ProtoSpec)                          *)
(***************************************************************************)
Constructors ==
    {"absolute_move", "relative_move", "reset_position", "get_status",
     "toggle_power_saving", "set_speed", "get_help"}

\* C4: every text a MotorCommands constructor returns passes
\* _validate_command.
C4_CommandRoundTrip ==
    (cmd.origin \in Constructors /\ ~cmd.raised /\ validateResult # "none")
        => validateResult = "True"

\* The text of a relative move by a negative float has been validated.
C4_Witness ==
    /\ cmd.origin = "relative_move"
    /\ cmd.arg = [kind |-> "float", v |-> -5]
    /\ cmd.text = <<114, 45, 48, 46, 53>>
    /\ validateResult = "True"

\* C5: set_speed(n) raises and yields no text for n outside 1..5, and returns
\* the token v<n> for n in 1..5.
C5_SpeedBound ==
    cmd.origin = "set_speed" =>
        IF cmd.arg.v \in 1..5
        THEN ~cmd.raised /\ cmd.text = <<118, 48 + cmd.arg.v>>
        ELSE cmd.raised /\ cmd.text = <<>>

\* set_speed(0) has raised.
C5_Witness ==
    /\ cmd.origin = "set_speed"
    /\ cmd.arg.v = 0
    /\ cmd.raised

\* a r z s p v h in lower and upper case
CommandLetters == {97, 114, 122, 115, 112, 118, 104, 65, 82, 90, 83, 80, 86, 72}

\* The first character of a text that is not whitespace, or 0 if there is none
FirstNonSpace(text) ==
    IF \A p \in 1..Len(text) : IsSpace(text[p]) THEN 0
    ELSE text[CHOOSE p \in 1..Len(text) :
                  ~IsSpace(text[p]) /\ \A q \in 1..(p - 1) : IsSpace(text[q])]

\* C6: _validate_command never raises, and returns true exactly when the text
\* is non-empty after trimming and its first character, in either case, is
\* one of a r z s p v h.
C6_ValidateIff ==
    validateResult # "none" =>
        /\ validateResult \in {"True", "False"}
        /\ (validateResult = "True") <=>
              FirstNonSpace(cmd.text) \in CommandLetters

\* A raw text with leading whitespace and an upper-case command letter has
\* been accepted.
C6_Witness ==
    /\ cmd.origin = "raw"
    /\ cmd.text = <<SP, 82, 49>>
    /\ validateResult = "True"

(***************************************************************************)
(* Properties of the session (Spec)                                        *)
(***************************************************************************)

\* C7: write_gatt_char is called only with a text that passes validation; a
\* send_command whose text fails validation returns failure and writes
\* nothing.
C7_InvalidNeverOnWire ==
    /\ \A j \in 1..Len(wire) : FirstNonSpace(wire[j].text) \in CommandLetters
    /\ \A i \in SendIds :
          (sendCo[i].pc # "idle" /\ FirstNonSpace(sendCo[i].text) \notin CommandLetters)
              => /\ sendCo[i].result \in {"NotConnected", "InvalidCommand"}
                 /\ \A j \in 1..Len(wire) : wire[j].by # i

\* On a connected session with an open link an invalid command was refused
\* and nothing was written.
C7_Witness ==
    /\ sendCo[1].result = "InvalidCommand"
    /\ sendCo[1].text = <<120>>
    /\ is_connected
    /\ client # NoClient
    /\ link[client] = "open"
    /\ wire = <<>>

\* C8: a disconnect() that found the session connected ends with is_connected
\* false and client released, whether the transport disconnect returned or
\* raised, and returns normally; a disconnect() that finds the session not
\* connected (a second call, or a call before any connect) returns normally
\* and changes nothing.
C8_DisconnectSafe ==
    [][/\ (discCo.pc = "closing" /\ discCo'.pc = "idle")
            => (~is_connected' /\ client' = NoClient /\ discCo'.result = "returned")
       /\ (discCo.pc = "idle" /\ discCo' # discCo)
            => IF is_connected /\ client # NoClient
               THEN discCo'.pc = "closing" /\ discCo'.k = client
               ELSE /\ discCo'.pc = "idle"
                    /\ discCo'.result = "returned"
                    /\ UNCHANGED <<clientVars, framerVars, linkVars>>]_vars

\* The transport disconnect raised and left the link open; the session is
\* released all the same.
C8_Witness ==
    /\ discCo.pc = "idle"
    /\ discCo.outcome = "raise"
    /\ ~is_connected
    /\ client = NoClient
    /\ \E k \in ClientIds : link[k] = "open"

\* C9: a send_command that starts while is_connected is false or client is
\* unset returns failure as not connected, calls no transport write and
\* leaves connection state, client, device, links and inbound buffer as they
\* were.
C9_SendWhileNotConnected ==
    [][\A i \in SendIds :
          (sendCo[i].pc = "idle" /\ sendCo'[i].pc # "idle"
              /\ (~is_connected \/ client = NoClient))
            => /\ sendCo'[i].pc = "done"
               /\ sendCo'[i].result = "NotConnected"
               /\ UNCHANGED <<clientVars, framerVars, linkVars>>]_vars

\* After a disconnect, with a fragment still buffered, a valid command was
\* rejected as not connected and nothing was written.
C9_Witness ==
    /\ sendCo[1].result = "NotConnected"
    /\ sendCo[1].text = <<115>>
    /\ discCo.outcome = "ok"
    /\ message_buffer = <<LetterA>>
    /\ wire = <<>>

\* C10: when connect() has no device selected and the scan returns no device
\* named on the allow-list, connect fails with the device-not-found error, no
\* BleakClient is created and no link opened, and the session stays not
\* connected.
C10_NoMatchEndsClosed ==
    [][(/\ connCo.pc = "scanning"
        /\ connCo'.pc # "scanning"
        /\ connCo'.result # "ScanError"
        /\ \A p \in 1..Len(lastScan') : lastScan'[p] \notin {"StepperMotor", "Arduino"})
          => /\ connCo' = ConnIdle("DeviceNotFound")
             /\ device' = "None"
             /\ ~is_connected'
             /\ client' = NoClient
             /\ nextClient' = nextClient
             /\ \A k \in ClientIds : link'[k] = "unused"]_vars

\* A scan that returned only devices off the allow-list ended connect() with
\* the device-not-found error.
C10_Witness ==
    /\ connCo = ConnIdle("DeviceNotFound")
    /\ lastScan = <<"Other">>
    /\ client = NoClient
    /\ ~is_connected

\* C11 (as stated): whenever the transport open inside connect() raises or
\* times out, connect() ends with an error and the session is not connected.
C11_FailedOpenEndsClosed ==
    [][(/\ connCo.pc = "opening"
        /\ connCo'.pc = "idle"
        /\ link'[connCo.k] # "open")
          => /\ connCo'.result \in {"ConnectFailed", "ConnectTimeout"}
             /\ ~is_connected']_vars

\* C12 (as stated): no transport write of a send_command is carried out on a
\* client before start_notify has succeeded on it.
C12_SubscribeBeforeSend ==
    [][\A i \in SendIds :
          (sendCo[i].pc = "writing" /\ sendCo'[i].result = "True")
            => sendCo[i].k \in subscribed]_vars

\* C14 (as stated): when the link of the session's client has ended while
\* the session is connected, is_connected becomes false eventually.
C14_PeerCloseReachesClosed ==
    (is_connected /\ client # NoClient /\ link[client] = "closed") ~> ~is_connected

\* C15 (as stated): a session that has been closed is never connected again;
\* here closed by a disconnect() that found it connected and has completed.
C15_ClosedIsTerminal ==
    [][(~is_connected /\ discCo.outcome \in {"ok", "raise"}) => ~is_connected']_vars

\* The BleakClient objects of the session whose link is open
OpenLinks == {k \in ClientIds : link[k] = "open"}

\* C24 (as stated): at every point of every sequence of connect and
\* disconnect calls at most one transport of the session is open.
C24_OneTransportPerSession == Cardinality(OpenLinks) <= 1

\* C25 (as stated): is_connected is true only while client is set and
\* start_notify has succeeded on that client, and it is set to true only by
\* the step of connect() that follows a successful start_notify.
C25_ConnectedImpliesUsable ==
    [][/\ is_connected' => (client' # NoClient /\ client' \in subscribed')
       /\ (~is_connected /\ is_connected')
            => (connCo.pc = "subscribing" /\ connCo'.result = "True"
                  /\ link[connCo.k] = "open")]_vars

\* C26 (as stated): when connect() fails although client.connect() had
\* succeeded, the link it opened is closed, or it is the one a following
\* disconnect() closes (disconnect acts on self.client when is_connected).
C26_NoLeakedLinkOnFailedConnect ==
    [][(/\ connCo.pc \in {"opening", "subscribing"}
        /\ connCo'.pc = "idle"
        /\ connCo'.result # "True"
        /\ link'[connCo.k] = "open")
          => (is_connected' /\ client' = connCo.k)]_vars

(***************************************************************************)
(* Properties of the GUI-driven session (GuiSpec)                          *)
(***************************************************************************)

\* C13 (as stated): a transport write of send_command that fails leaves the
\* session not connected, and a send_command that starts after a write on
\* the session's current client has failed is rejected as not connected and
\* calls no transport write.
C13_SendFailureDegrades ==
    [][\A i \in GuiSendIds :
          /\ (sendCo[i].pc = "writing" /\ sendCo'[i].result = "WriteError")
                => ~is_connected'
          /\ (/\ sendCo[i].pc = "idle"
              /\ sendCo'[i].pc # "idle"
              /\ \E j \in GuiSendIds : /\ sendCo[j].result = "WriteError"
                                        /\ sendCo[j].k = client)
                => (sendCo'[i].result = "NotConnected" /\ wire' = wire)]_vars

\* Whether send_command of invocation i went on to the transport write
Wrote(i) == sendCo[i].pc = "writing" \/ sendCo[i].result \in {"True", "WriteError"}

\* C19: the calls of write_gatt_char are made in the order in which the GUI
\* issued the commands; every command whose send_command reached the write
\* has exactly one call, carrying the encoding of its own text.
C19_OutboundOrdering ==
    /\ \A a, b \in 1..Len(wire) : a < b => wire[a].by < wire[b].by
    /\ \A a \in 1..Len(wire) :
          /\ Wrote(wire[a].by)
          /\ wire[a].text = guiCo[wire[a].by].text
          /\ wire[a].data = Utf8Encode(guiCo[wire[a].by].text)
    /\ \A i \in GuiSendIds : Wrote(i) => \E a \in 1..Len(wire) : wire[a].by = i

\* The first command timed out in the GUI before the loop had started it,
\* the second was issued behind it, and both were written in that order.
C19_Witness ==
    /\ guiCo[1].result = "Timeout"
    /\ Len(wire) = 2
    /\ wire[1].by = 1
    /\ wire[2].by = 2
    /\ sendCo[1].result = "True"
    /\ sendCo[2].result = "True"

\* C21: when the wait of the GUI's send_command expires, the call ends
\* without success and the step changes neither is_connected nor client,
\* device, links, wire or any coroutine of the session; a session that was
\* connected is still connected.
C21_TimeoutKeepsConnection ==
    [][\A i \in GuiSendIds :
          (guiCo[i].pc = "waiting" /\ guiCo'[i].pc = "returned" /\ sendCo[i].pc # "done")
            => /\ guiCo'[i].result \in {"Timeout", "TimeoutRaised"}
               /\ UNCHANGED <<clientVars, linkVars, coVars, framerVars>>]_vars

\* The write of the first command is still pending after the GUI gave up on
\* it, and the session is connected.
C21_Witness ==
    /\ guiCo[1].result = "Timeout"
    /\ sendCo[1].pc = "writing"
    /\ is_connected
    /\ client # NoClient
    /\ link[client] = "open"

\* C29 (as stated): a command whose send_command returned False because the
\* wait expired is not written afterwards: write_gatt_char is neither called
\* for it nor completes for it after the timeout.
C29_TimedOutSendNotDelivered ==
    [][\A i \in GuiSendIds :
          guiCo[i].result = "Timeout"
            => /\ ~(Len(wire') > Len(wire) /\ wire'[Len(wire')].by = i)
               /\ ~(sendCo[i].pc = "writing" /\ sendCo'[i].result = "True")]_vars

(***************************************************************************)
(* Properties of the TCP test server (ServerSpec)                          *)
(***************************************************************************)

\* C17 (as stated): a broadcast attempts the write to every registered peer
\* whatever the outcome of the other writes, and no broadcast attempts a
\* peer to which the write of an earlier broadcast has failed.
C17_BroadcastIsolation ==
    [][/\ (commandCo.pc = "sending" /\ commandCo'.pc = "input")
            => {commandCo.tried[j].p : j \in 1..Len(commandCo.tried)} = Registered
       /\ (commandCo.pc = "sending" /\ Len(commandCo'.tried) > Len(commandCo.tried))
            => clients[commandCo.idx] \notin failed]_vars

\* C18 (as stated): no socket send or close is performed by a thread while it
\* holds client_lock.
C18_NoIoUnderLock == ~lastIo.held

\* C27 (as stated): a connection whose handler thread has finished is not in
\* the clients registry.
C27_NoStaleRegistryEntry ==
    \A p \in PeerIds : handlerCo[p] = "ended" => p \notin Registered

\* C28 (as stated): once a call of stop() has returned, the clients registry
\* is empty and every accepted client socket is closed.
C28_StopEmptiesRegistry ==
    (stopCo.calls >= 1 /\ stopCo.pc = "idle")
        => /\ clients = <<>>
           /\ \A p \in PeerIds : sock[p] \in {"unused", "closed"}

(***************************************************************************)
(* Properties of the log recorder (RecorderSpec)                           *)
(***************************************************************************)

\* The text of a line readline returned, as the loop sees it (empty when
\* the bytes are not UTF-8)
C30_Text(raw) == Strip(Utf8Decode(raw, FALSE).text)

\* The lines received so far whose text carries the LOG: prefix
C30_LogLines == {i \in 1..Len(serial_in) : StartsWith(C30_Text(serial_in[i]), LogPrefix)}

\* What follows the prefix in line i
C30_Payload(i) == Slice(C30_Text(serial_in[i]), 4, Len(C30_Text(serial_in[i])))

====
